---- MODULE Spec2Model ----
(***************************************************************************)
(* Model of mdbook-linkcheck's configuration type (src/config.rs):         *)
(* Config, its defaults, the regex_serde codec of the exclude list, the    *)
(* derived Serialize / Deserialize implementations, PartialEq and          *)
(* should_skip.                                                            *)
(*                                                                         *)
(* Text is a sequence of one-character strings.  A serialized document is  *)
(* a sequence of entries [key, val] in the serde data model (the format    *)
(* layer, e.g. TOML, is outside this file).  An optional value is <<>>     *)
(* (None) or <<v>> (Some(v)).                                              *)
(***************************************************************************)
EXTENDS Integers, Sequences, FiniteSets, TLC

VARIABLES
    pc,         \* position of the host run / of the comparison
    input,      \* codec: the document handed to deserialization, as Option
    loaded,     \* codec: Result<Config, Error> of deserializing input
    output,     \* codec: Option of the document produced by serialization
    reloaded,   \* codec: Result<Config, Error> of deserializing output
    shared,     \* query: the Config the engine holds a reference to
    calls,      \* query: per caller, the state of its should_skip call
    lhs,        \* equality: self
    rhs,        \* equality: other
    eqResult    \* equality: Option of the boolean returned by eq

vars == <<pc, input, loaded, output, reloaded, shared, calls, lhs, rhs, eqResult>>

None == <<>>
Some(v) == <<v>>

Min(a, b) == IF a <= b THEN a ELSE b

---------------------------------------------------------------------------
(* Bounds of the model *)

\* longest exclude list drawn as an input
MaxExclude == 2
\* longest link text drawn as an input
MaxLinkLen == 3

---------------------------------------------------------------------------
(* The regex crate, restricted to literals, '.', escapes and groups *)

MetaChars == {".", "\\", "(", ")"}

LitAtom(c) == [kind |-> "lit", ch |-> c]
AnyAtom == [kind |-> "any", ch |-> ""]

ReOk(p, atoms) == [ok |-> TRUE, val |-> Some([src |-> p, prog |-> atoms]), err |-> ""]
ReErr(msg) == [ok |-> FALSE, val |-> None, err |-> msg]

RECURSIVE ParseFrom(_, _, _, _)
ParseFrom(p, i, depth, atoms) ==
    IF i > Len(p)
    THEN IF depth = 0 THEN ReOk(p, atoms) ELSE ReErr("unclosed group")
    ELSE LET c == p[i] IN
         CASE c = "\\" ->
                IF i = Len(p) THEN ReErr("incomplete escape sequence")
                ELSE IF p[i + 1] \in MetaChars
                     THEN ParseFrom(p, i + 2, depth, Append(atoms, LitAtom(p[i + 1])))
                     ELSE ReErr("unrecognized escape sequence")
           [] c = "(" -> ParseFrom(p, i + 1, depth + 1, atoms)
           [] c = ")" ->
                IF depth = 0 THEN ReErr("unopened group")
                ELSE ParseFrom(p, i + 1, depth - 1, atoms)
           [] c = "." -> ParseFrom(p, i + 1, depth, Append(atoms, AnyAtom))
           [] OTHER -> ParseFrom(p, i + 1, depth, Append(atoms, LitAtom(c)))

\* Regex::new(&pat): compiles the text, or reports why it cannot
RegexNew(p) == ParseFrom(p, 1, 0, <<>>)

\* Regex::as_str(): the text the matcher was compiled from
as_str(re) == re.src

AtomMatches(atom, c) == IF atom.kind = "any" THEN c # "\n" ELSE atom.ch = c

MatchesAt(re, text, start) ==
    /\ start + Len(re.prog) - 1 <= Len(text)
    /\ \A k \in 1..Len(re.prog) : AtomMatches(re.prog[k], text[start + k - 1])

\* Regex::is_match(text): the pattern matches somewhere in the text
is_match(re, text) == \E start \in 1..(Len(text) + 1) : MatchesAt(re, text, start)

---------------------------------------------------------------------------
(* Config and its defaults *)

PKG_NAME == "mdbook-linkcheck"
PKG_VERSION == "VERSION"

DEFAULT_CACHE_TIMEOUT == 60 * 60 * 12
DEFAULT_USER_AGENT == PKG_NAME \o "-" \o PKG_VERSION

default_cache_timeout == DEFAULT_CACHE_TIMEOUT
default_user_agent == DEFAULT_USER_AGENT

MkConfig(f, t, e, u, c) ==
    [follow_web_links |-> f, traverse_parent_directories |-> t,
     exclude |-> e, user_agent |-> u, cache_timeout |-> c]

\* impl Default for Config
ConfigDefault ==
    MkConfig(FALSE, FALSE, <<>>, default_user_agent, DEFAULT_CACHE_TIMEOUT)

\* a query that consults the first pattern only
should_skip_first_only(self, link) ==
    Len(self.exclude) > 0 /\ is_match(self.exclude[1], link)

\* Config::should_skip, as a function of the Config and the link
should_skip(self, link) ==
    \E i \in 1..Len(self.exclude) : is_match(self.exclude[i], link)

\* an equality without the length comparison: zip stops at the shorter list
eq_zip_only(self, other) ==
    /\ self.follow_web_links = other.follow_web_links
    /\ self.traverse_parent_directories = other.traverse_parent_directories
    /\ self.user_agent = other.user_agent
    /\ self.cache_timeout = other.cache_timeout
    /\ \A i \in 1..Min(Len(self.exclude), Len(other.exclude)) :
           as_str(self.exclude[i]) = as_str(other.exclude[i])

\* an equality that compares the exclude lists by length only
eq_length_only(self, other) ==
    /\ self.follow_web_links = other.follow_web_links
    /\ self.traverse_parent_directories = other.traverse_parent_directories
    /\ Len(self.exclude) = Len(other.exclude)
    /\ self.user_agent = other.user_agent
    /\ self.cache_timeout = other.cache_timeout

\* impl PartialEq for Config
eq(self, other) ==
    /\ self.follow_web_links = other.follow_web_links
    /\ self.traverse_parent_directories = other.traverse_parent_directories
    /\ Len(self.exclude) = Len(other.exclude)
    /\ self.user_agent = other.user_agent
    /\ self.cache_timeout = other.cache_timeout
    /\ \A i \in 1..Min(Len(self.exclude), Len(other.exclude)) :
           as_str(self.exclude[i]) = as_str(other.exclude[i])
---------------------------------------------------------------------------
(* The codec: regex_serde and the derived Serialize / Deserialize *)

\* #[serde(rename_all = "kebab-case")]: the field names in declaration order
FieldKeys ==
    <<"follow-web-links", "traverse-parent-directories", "exclude",
      "user-agent", "cache-timeout">>

Entry(k, v) == [key |-> k, val |-> v]

Ok(v) == [ok |-> TRUE, val |-> Some(v), err |-> ""]
Err(msg) == [ok |-> FALSE, val |-> None, err |-> msg]

\* the text re-derived from the compiled program instead of the stored source
Rederived(re) ==
    LET RECURSIVE Text(_)
        Text(k) ==
            IF k > Len(re.prog) THEN <<>>
            ELSE (IF re.prog[k].kind = "any" THEN <<".">>
                  ELSE IF re.prog[k].ch \in MetaChars THEN <<"\\", re.prog[k].ch>>
                  ELSE <<re.prog[k].ch>>) \o Text(k + 1)
    IN Text(1)

\* a serializer that emits a normalized form of each pattern
regex_serde_serialize_normalized(re) == [i \in 1..Len(re) |-> Rederived(re[i])]

\* regex_serde::serialize: one string per pattern, its source text, in order
regex_serde_serialize(re) == [i \in 1..Len(re) |-> as_str(re[i])]

RECURSIVE CompileFrom(_, _, _)
CompileFrom(raw, i, patterns) ==
    IF i > Len(raw) THEN Ok(patterns)
    ELSE LET re == RegexNew(raw[i]) IN
         IF ~re.ok THEN Err(re.err)
         ELSE CompileFrom(raw, i + 1, Append(patterns, re.val[1]))

\* a deserializer that skips the strings that do not compile
regex_serde_deserialize_skipping(raw) ==
    CompileFrom(SelectSeq(raw, LAMBDA p : RegexNew(p).ok), 1, <<>>)

\* regex_serde::deserialize: compile every string, stop at the first failure
regex_serde_deserialize(raw) == CompileFrom(raw, 1, <<>>)

\* a serializer that emits the scalar fields before the exclude list
ConfigSerialize_scalars_first(c) ==
    << Entry(FieldKeys[1], c.follow_web_links),
       Entry(FieldKeys[2], c.traverse_parent_directories),
       Entry(FieldKeys[4], c.user_agent),
       Entry(FieldKeys[5], c.cache_timeout),
       Entry(FieldKeys[3], regex_serde_serialize(c.exclude)) >>

\* #[derive(Serialize)]: every field under its key, in declaration order
ConfigSerialize(c) ==
    << Entry(FieldKeys[1], c.follow_web_links),
       Entry(FieldKeys[2], c.traverse_parent_directories),
       Entry(FieldKeys[3], regex_serde_serialize(c.exclude)),
       Entry(FieldKeys[4], c.user_agent),
       Entry(FieldKeys[5], c.cache_timeout) >>

NoFields ==
    [follow_web_links |-> None, traverse_parent_directories |-> None,
     exclude |-> None, user_agent |-> None, cache_timeout |-> None]

OrElse(opt, dflt) == IF opt = None THEN dflt ELSE opt[1]

\* missing fields filled from the types' zero values (no default = "..." paths)
FillMissing_zero_values(acc) ==
    MkConfig(OrElse(acc.follow_web_links, FALSE),
             OrElse(acc.traverse_parent_directories, FALSE),
             OrElse(acc.exclude, <<>>),
             OrElse(acc.user_agent, ""),
             OrElse(acc.cache_timeout, 0))

\* #[serde(default)] on the struct, default = "..." on two of its fields:
\* what a field takes when its key was not visited
FillMissing(acc) ==
    MkConfig(OrElse(acc.follow_web_links, ConfigDefault.follow_web_links),
             OrElse(acc.traverse_parent_directories,
                    ConfigDefault.traverse_parent_directories),
             OrElse(acc.exclude, ConfigDefault.exclude),
             OrElse(acc.user_agent, default_user_agent),
             OrElse(acc.cache_timeout, default_cache_timeout))

RECURSIVE VisitMap(_, _, _)
VisitMap(doc, i, acc) ==
    IF i > Len(doc) THEN Ok(FillMissing(acc))
    ELSE LET k == doc[i].key
             v == doc[i].val
         IN
         CASE k = FieldKeys[1] ->
                IF acc.follow_web_links # None THEN Err("duplicate field")
                ELSE VisitMap(doc, i + 1, [acc EXCEPT !.follow_web_links = Some(v)])
           [] k = FieldKeys[2] ->
                IF acc.traverse_parent_directories # None THEN Err("duplicate field")
                ELSE VisitMap(doc, i + 1,
                              [acc EXCEPT !.traverse_parent_directories = Some(v)])
           [] k = FieldKeys[3] ->
                IF acc.exclude # None THEN Err("duplicate field")
                ELSE LET r == regex_serde_deserialize(v) IN
                     IF ~r.ok THEN Err(r.err)
                     ELSE VisitMap(doc, i + 1, [acc EXCEPT !.exclude = r.val])
           [] k = FieldKeys[4] ->
                IF acc.user_agent # None THEN Err("duplicate field")
                ELSE VisitMap(doc, i + 1, [acc EXCEPT !.user_agent = Some(v)])
           [] k = FieldKeys[5] ->
                IF acc.cache_timeout # None THEN Err("duplicate field")
                ELSE IF v < 0 THEN Err("invalid value: expected u64")
                ELSE VisitMap(doc, i + 1, [acc EXCEPT !.cache_timeout = Some(v)])
           [] OTHER -> VisitMap(doc, i + 1, acc)

\* a deserializer that knows the last field under its snake_case name only,
\* so that the kebab-case key is skipped as unknown
ConfigDeserialize_snake_case_key(doc) ==
    VisitMap(SelectSeq(doc, LAMBDA e : e.key # FieldKeys[5]), 1, NoFields)

\* #[derive(Deserialize)]: visit the entries in document order
ConfigDeserialize(doc) == VisitMap(doc, 1, NoFields)

---------------------------------------------------------------------------
(* Inputs *)

SeqsUpTo(S, n) == UNION {[1..k -> S] : k \in 0..n}

\* pattern texts: a literal, any character, an escaped dot, a group, and
\* an unclosed group (which does not compile)
PatternTexts ==
    { <<"g">>, <<".">>, <<"\\", ".">>, <<"(", "g", ")">>, <<"(">> }

ValidPatternTexts == {p \in PatternTexts : RegexNew(p).ok}

Compiled(p) == RegexNew(p).val[1]

RawExcludes == SeqsUpTo(PatternTexts, MaxExclude)

CompiledExcludes ==
    {[i \in 1..Len(raw) |-> Compiled(raw[i])] :
        raw \in SeqsUpTo(ValidPatternTexts, MaxExclude)}

UserAgents == {DEFAULT_USER_AGENT, "Internet Explorer"}
CacheTimeouts == {DEFAULT_CACHE_TIMEOUT, 60 * 60}

Opt(S) == {None} \cup {Some(v) : v \in S}

\* the orders in which a document may list its keys: the declaration order
\* and its reverse
KeyOrders == {FieldKeys, [i \in 1..Len(FieldKeys) |-> FieldKeys[Len(FieldKeys) + 1 - i]]}

UnknownKey == "warning-policy"

RECURSIVE EntriesFrom(_, _, _)
EntriesFrom(order, vals, i) ==
    IF i > Len(order) THEN <<>>
    ELSE IF vals[order[i]] = None THEN EntriesFrom(order, vals, i + 1)
         ELSE <<Entry(order[i], vals[order[i]][1])>> \o EntriesFrom(order, vals, i + 1)

\* the document listing the present keys in the given order, then possibly
\* a key this type does not know
MkDocument(order, f, t, e, u, c, extra) ==
    LET vals == (FieldKeys[1] :> f) @@ (FieldKeys[2] :> t) @@ (FieldKeys[3] :> e)
                @@ (FieldKeys[4] :> u) @@ (FieldKeys[5] :> c)
    IN EntriesFrom(order, vals, 1)
       \o (IF extra THEN <<Entry(UnknownKey, "warn")>> ELSE <<>>)

HasKey(doc, k) == \E i \in 1..Len(doc) : doc[i].key = k
ValueOf(doc, k) == doc[CHOOSE i \in 1..Len(doc) : doc[i].key = k].val

\* every value has the type of its field (only the integer can be drawn
\* out of range)
WellTyped(doc) ==
    \A i \in 1..Len(doc) : doc[i].key = FieldKeys[5] => doc[i].val >= 0

---------------------------------------------------------------------------
(* The host run: construct a Config, save it, load what was saved *)

NoResult == None

CodecIdle ==
    /\ shared = ConfigDefault
    /\ calls = <<>>
    /\ lhs = ConfigDefault
    /\ rhs = ConfigDefault
    /\ eqResult = None

Init ==
    /\ pc = "start"
    /\ input = None
    /\ loaded = NoResult
    /\ output = None
    /\ reloaded = NoResult
    /\ CodecIdle

\* the host hands a document to deserialization
Load ==
    /\ pc = "start"
    /\ \E order \in KeyOrders, f \in Opt(BOOLEAN), t \in Opt(BOOLEAN),
          e \in Opt(RawExcludes), u \in Opt(UserAgents),
          c \in Opt(CacheTimeouts \cup {-1}), extra \in BOOLEAN :
          LET doc == MkDocument(order, f, t, e, u, c, extra) IN
          /\ input' = Some(doc)
          /\ loaded' = Some(ConfigDeserialize(doc))
    /\ pc' = "loaded"
    /\ UNCHANGED <<output, reloaded, shared, calls, lhs, rhs, eqResult>>

\* the host builds a Config by assigning its fields
Construct ==
    /\ pc = "start"
    /\ \E f \in BOOLEAN, t \in BOOLEAN, e \in CompiledExcludes,
          u \in UserAgents, c \in CacheTimeouts :
          loaded' = Some(Ok(MkConfig(f, t, e, u, c)))
    /\ pc' = "loaded"
    /\ UNCHANGED <<input, output, reloaded, shared, calls, lhs, rhs, eqResult>>

\* the host serializes the Config it holds
Save ==
    /\ pc = "loaded"
    /\ loaded[1].ok
    /\ output' = Some(ConfigSerialize(loaded[1].val[1]))
    /\ pc' = "saved"
    /\ UNCHANGED <<input, loaded, reloaded, shared, calls, lhs, rhs, eqResult>>

\* the host deserializes what it serialized
Reload ==
    /\ pc = "saved"
    /\ reloaded' = Some(ConfigDeserialize(output[1]))
    /\ pc' = "reloaded"
    /\ UNCHANGED <<input, loaded, output, shared, calls, lhs, rhs, eqResult>>

Next == Load \/ Construct \/ Save \/ Reload

Spec == Init /\ [][Next]_vars
---------------------------------------------------------------------------
(* Properties of the codec, checked under Spec *)

Cfg(result) == result[1].val[1]

FieldOf(c, k) ==
    CASE k = FieldKeys[1] -> c.follow_web_links
      [] k = FieldKeys[2] -> c.traverse_parent_directories
      [] k = FieldKeys[3] -> c.exclude
      [] k = FieldKeys[4] -> c.user_agent
      [] k = FieldKeys[5] -> c.cache_timeout

KeySet == {FieldKeys[i] : i \in 1..Len(FieldKeys)}
ScalarKeys == KeySet \ {FieldKeys[3]}

\* the document lists exactly the five keys, in declaration order
Canonical(doc) ==
    /\ Len(doc) = Len(FieldKeys)
    /\ \A i \in 1..Len(doc) : doc[i].key = FieldKeys[i]

\* C1: serializing any Config and deserializing the result succeeds and
\* yields a Config equal to the original under PartialEq.
Thm_C1_SerializeThenDeserialize ==
    pc = "reloaded" =>
        /\ reloaded[1].ok
        /\ eq(Cfg(reloaded), Cfg(loaded))
        /\ eq(Cfg(loaded), Cfg(reloaded))

Wit_C1_SerializeThenDeserialize ==
    /\ pc = "reloaded"
    /\ input = None
    /\ reloaded[1].ok
    /\ Cfg(loaded).follow_web_links
    /\ Cfg(loaded).cache_timeout # DEFAULT_CACHE_TIMEOUT
    /\ Len(Cfg(loaded).exclude) = MaxExclude
    /\ as_str(Cfg(loaded).exclude[1]) = <<"(", "g", ")">>
    /\ as_str(Cfg(loaded).exclude[2]) = <<"\\", ".">>

\* two documents hold the same keys in the same order with the same values
SameDocument(d1, d2) ==
    /\ Len(d1) = Len(d2)
    /\ \A i \in 1..Len(d1) : d1[i].key = d2[i].key /\ d1[i].val = d2[i].val

\* C2: a document that lists the five keys (and only them) in declaration
\* order, and that deserializes, is reproduced exactly by reserializing the
\* Config it gave: same keys, same order, same values, same exclude strings.
Thm_C2_DeserializeThenSerialize ==
    (pc \in {"saved", "reloaded"} /\ input # None /\ Canonical(input[1])) =>
        SameDocument(output[1], input[1])

Wit_C2_DeserializeThenSerialize ==
    /\ pc = "saved"
    /\ input # None
    /\ Canonical(input[1])
    /\ SameDocument(output[1], input[1])
    /\ ValueOf(input[1], FieldKeys[1]) = TRUE
    /\ ValueOf(input[1], FieldKeys[3]) = << <<"\\", ".">> >>
    /\ ValueOf(input[1], FieldKeys[4]) = "Internet Explorer"
    /\ ValueOf(input[1], FieldKeys[5]) = 60 * 60

\* C3: in the Config a valid document deserializes to, every field whose key
\* the document omits has the value Config::default() gives it, and the
\* empty document deserializes to Config::default().
Thm_C3_OmittedFieldsDefault ==
    (pc = "loaded" /\ input # None /\ loaded[1].ok) =>
        /\ \A k \in KeySet :
               ~HasKey(input[1], k) => FieldOf(Cfg(loaded), k) = FieldOf(ConfigDefault, k)
        /\ ~HasKey(input[1], FieldKeys[1]) => Cfg(loaded).follow_web_links = FALSE
        /\ ~HasKey(input[1], FieldKeys[2]) => Cfg(loaded).traverse_parent_directories = FALSE
        /\ ~HasKey(input[1], FieldKeys[3]) => Cfg(loaded).exclude = <<>>
        /\ ~HasKey(input[1], FieldKeys[4]) => Cfg(loaded).user_agent = DEFAULT_USER_AGENT
        /\ ~HasKey(input[1], FieldKeys[5]) => Cfg(loaded).cache_timeout = 43200
        /\ input[1] = <<>> => Cfg(loaded) = ConfigDefault

Wit_C3_OmittedFieldsDefault ==
    /\ pc = "loaded"
    /\ input # None
    /\ loaded[1].ok
    /\ HasKey(input[1], FieldKeys[1])
    /\ HasKey(input[1], FieldKeys[3])
    /\ ValueOf(input[1], FieldKeys[3]) # <<>>
    /\ ~HasKey(input[1], FieldKeys[2])
    /\ ~HasKey(input[1], FieldKeys[4])
    /\ ~HasKey(input[1], FieldKeys[5])

SomeStringFailsToCompile(doc) ==
    /\ HasKey(doc, FieldKeys[3])
    /\ \E i \in 1..Len(ValueOf(doc, FieldKeys[3])) :
           ~RegexNew(ValueOf(doc, FieldKeys[3])[i]).ok

\* C4: deserializing a well-typed document fails exactly when some string of
\* its exclude list does not compile; a failure yields an error and no
\* Config, and a success keeps every string of the list.
Thm_C4_FailsIffBadPattern ==
    (pc = "loaded" /\ input # None /\ WellTyped(input[1])) =>
        /\ ~loaded[1].ok <=> SomeStringFailsToCompile(input[1])
        /\ ~loaded[1].ok => (loaded[1].val = None /\ loaded[1].err # "")
        /\ (loaded[1].ok /\ HasKey(input[1], FieldKeys[3])) =>
               Len(Cfg(loaded).exclude) = Len(ValueOf(input[1], FieldKeys[3]))

Wit_C4_FailsIffBadPattern ==
    /\ pc = "loaded"
    /\ input # None
    /\ WellTyped(input[1])
    /\ ~loaded[1].ok
    /\ loaded[1].val = None
    /\ ~(\E i \in 1..Len(input[1]) : input[1][i].key = UnknownKey)
    /\ HasKey(input[1], FieldKeys[3])
    /\ Len(ValueOf(input[1], FieldKeys[3])) = MaxExclude
    /\ RegexNew(ValueOf(input[1], FieldKeys[3])[1]).ok
    /\ ~RegexNew(ValueOf(input[1], FieldKeys[3])[MaxExclude]).ok
    /\ HasKey(input[1], FieldKeys[5])

\* C7: in the Config a valid document deserializes to, every field whose key
\* is present has the document's value, and exclude holds one matcher per
\* input string, in input order, compiled from and reporting that string.
Thm_C7_PresentFieldsTakeInput ==
    (pc = "loaded" /\ input # None /\ loaded[1].ok) =>
        /\ \A k \in ScalarKeys :
               HasKey(input[1], k) => FieldOf(Cfg(loaded), k) = ValueOf(input[1], k)
        /\ HasKey(input[1], FieldKeys[3]) =>
               LET raw == ValueOf(input[1], FieldKeys[3]) IN
               /\ Len(Cfg(loaded).exclude) = Len(raw)
               /\ \A i \in 1..Len(raw) :
                      /\ as_str(Cfg(loaded).exclude[i]) = raw[i]
                      /\ Cfg(loaded).exclude[i] = Compiled(raw[i])

Wit_C7_PresentFieldsTakeInput ==
    /\ pc = "loaded"
    /\ input # None
    /\ loaded[1].ok
    /\ Canonical(input[1])
    /\ Cfg(loaded).follow_web_links
    /\ Cfg(loaded).traverse_parent_directories
    /\ Cfg(loaded).user_agent = "Internet Explorer"
    /\ Cfg(loaded).cache_timeout = 60 * 60
    /\ Len(Cfg(loaded).exclude) = 1
    /\ as_str(Cfg(loaded).exclude[1]) = <<"\\", ".">>
---------------------------------------------------------------------------
(* The engine's queries: should_skip calls on one shared Config *)

LinkChars == {"g", ".", "x"}
Links == SeqsUpTo(LinkChars, MaxLinkLen)

\* the links the concurrent callers ask about
ConcurrentLinks == { <<"x", "g">>, <<"g", ".">>, <<"x">> }

SingleCaller == {"c1"}
Callers == {"c1", "c2"}

IdleCall == [st |-> "idle", link |-> <<>>, idx |-> 0, ret |-> FALSE]

\* a step that returns false at the first pattern that does not match
\* (Iterator::all in place of Iterator::any)
AnyStep_all(exclude, call) ==
    IF call.idx > Len(exclude)
    THEN [call EXCEPT !.st = "returned", !.ret = TRUE]
    ELSE IF ~is_match(exclude[call.idx], call.link)
         THEN [call EXCEPT !.st = "returned", !.ret = FALSE]
         ELSE [call EXCEPT !.idx = @ + 1]

\* a step that takes the list for exhausted one pattern early
AnyStep_skips_last(exclude, call) ==
    IF call.idx >= Len(exclude)
    THEN [call EXCEPT !.st = "returned", !.ret = FALSE]
    ELSE IF is_match(exclude[call.idx], call.link)
         THEN [call EXCEPT !.st = "returned", !.ret = TRUE]
         ELSE [call EXCEPT !.idx = @ + 1]

\* one step of self.exclude.iter().any(|pat| pat.is_match(link)): return
\* false when the list is exhausted, true at the first match, else move on
AnyStep(exclude, call) ==
    IF call.idx > Len(exclude)
    THEN [call EXCEPT !.st = "returned", !.ret = FALSE]
    ELSE IF is_match(exclude[call.idx], call.link)
         THEN [call EXCEPT !.st = "returned", !.ret = TRUE]
         ELSE [call EXCEPT !.idx = @ + 1]

QueryIdle ==
    /\ input = None
    /\ loaded = NoResult
    /\ output = None
    /\ reloaded = NoResult
    /\ lhs = ConfigDefault
    /\ rhs = ConfigDefault
    /\ eqResult = None

InitQuery ==
    /\ pc = "query"
    /\ shared \in {[ConfigDefault EXCEPT !.exclude = e] : e \in CompiledExcludes}
    /\ calls = [t \in SingleCaller |-> IdleCall]
    /\ QueryIdle

InitConcurrent ==
    /\ pc = "query"
    /\ shared \in {[ConfigDefault EXCEPT !.exclude = e] : e \in CompiledExcludes}
    /\ calls = [t \in Callers |-> IdleCall]
    /\ QueryIdle

\* a caller enters should_skip(&self, link)
QCall(t, links) ==
    /\ calls[t].st = "idle"
    /\ \E link \in links :
          calls' = [calls EXCEPT ![t] = [st |-> "running", link |-> link,
                                         idx |-> 1, ret |-> FALSE]]
    /\ UNCHANGED <<pc, input, loaded, output, reloaded, shared, lhs, rhs, eqResult>>

\* a caller's iteration examines the next pattern
QStep(t) ==
    /\ calls[t].st = "running"
    /\ calls' = [calls EXCEPT ![t] = AnyStep(shared.exclude, calls[t])]
    /\ UNCHANGED <<pc, input, loaded, output, reloaded, shared, lhs, rhs, eqResult>>

\* a caller takes the returned boolean
QReturn(t) ==
    /\ calls[t].st = "returned"
    /\ calls' = [calls EXCEPT ![t] = IdleCall]
    /\ UNCHANGED <<pc, input, loaded, output, reloaded, shared, lhs, rhs, eqResult>>

NextQuery == \E t \in SingleCaller : QCall(t, Links) \/ QStep(t) \/ QReturn(t)

\* one caller, every link up to MaxLinkLen
SpecQuery == InitQuery /\ [][NextQuery]_vars

NextConcurrent ==
    \E t \in Callers : QCall(t, ConcurrentLinks) \/ QStep(t) \/ QReturn(t)

\* two callers interleaving their steps
SpecConcurrent == InitConcurrent /\ [][NextConcurrent]_vars

Reorderings(seq) ==
    {[i \in 1..Len(seq) |-> seq[f[i]]] :
        f \in {g \in [1..Len(seq) -> 1..Len(seq)] :
                  \A a, b \in 1..Len(seq) : g[a] = g[b] => a = b}}

\* C5: a should_skip call returns true exactly when at least one pattern of
\* exclude matches somewhere in the link; with an empty exclude it returns
\* false for every link.
Thm_C5_SkipIffSomePatternMatches ==
    \A t \in DOMAIN calls :
        calls[t].st = "returned" =>
            /\ calls[t].ret <=>
                   \E i \in 1..Len(shared.exclude), start \in 1..(Len(calls[t].link) + 1) :
                       MatchesAt(shared.exclude[i], calls[t].link, start)
            /\ shared.exclude = <<>> => calls[t].ret = FALSE

\* the second of two patterns matches in the middle of the link, not at its start
Wit_C5_SkipIffSomePatternMatches ==
    \E t \in DOMAIN calls :
        /\ calls[t].st = "returned"
        /\ calls[t].ret = TRUE
        /\ Len(shared.exclude) = MaxExclude
        /\ ~is_match(shared.exclude[1], calls[t].link)
        /\ calls[t].idx = MaxExclude
        /\ ~MatchesAt(shared.exclude[MaxExclude], calls[t].link, 1)

\* C8: the boolean a should_skip call returns is the one should_skip gives
\* for every permutation of the exclude list.
Thm_C8_OrderIndependent ==
    \A t \in DOMAIN calls :
        calls[t].st = "returned" =>
            \A perm \in Reorderings(shared.exclude) :
                should_skip([shared EXCEPT !.exclude = perm], calls[t].link) = calls[t].ret

\* the call returned true at the first pattern and the other pattern does not match
Wit_C8_OrderIndependent ==
    \E t \in DOMAIN calls :
        /\ calls[t].st = "returned"
        /\ calls[t].ret = TRUE
        /\ calls[t].idx = 1
        /\ Len(shared.exclude) = MaxExclude
        /\ ~is_match(shared.exclude[MaxExclude], calls[t].link)

\* C9: no step of any interleaving of concurrent should_skip calls changes
\* the shared Config, and every call returns what should_skip gives for
\* that Config and link on its own.
Thm_C9_ConcurrentReadsOnly ==
    /\ [][shared' = shared]_vars
    /\ [](\A t \in DOMAIN calls :
             calls[t].st = "returned" =>
                 calls[t].ret = should_skip(shared, calls[t].link))

\* one call has returned true while another, on a different link, is midway
Wit_C9_ConcurrentReadsOnly ==
    \E t, o \in DOMAIN calls :
        /\ t # o
        /\ calls[t].st = "returned"
        /\ calls[t].ret = TRUE
        /\ calls[o].st = "running"
        /\ calls[o].idx = MaxExclude
        /\ calls[o].link # calls[t].link
        /\ shared.exclude # <<>>
---------------------------------------------------------------------------
(* Comparisons: eq applied to two Configs *)

\* the scalar fields of Config::default(), and each of them changed alone
EqScalars ==
    { <<FALSE, FALSE, DEFAULT_USER_AGENT, DEFAULT_CACHE_TIMEOUT>>,
      <<TRUE, FALSE, DEFAULT_USER_AGENT, DEFAULT_CACHE_TIMEOUT>>,
      <<FALSE, TRUE, DEFAULT_USER_AGENT, DEFAULT_CACHE_TIMEOUT>>,
      <<FALSE, FALSE, "Internet Explorer", DEFAULT_CACHE_TIMEOUT>>,
      <<FALSE, FALSE, DEFAULT_USER_AGENT, 60 * 60>> }

\* a literal, the same literal in a group, and an escaped dot
EqPatternTexts == { <<"g">>, <<"(", "g", ")">>, <<"\\", ".">> }

EqExcludes ==
    {[i \in 1..Len(raw) |-> Compiled(raw[i])] :
        raw \in SeqsUpTo(EqPatternTexts, MaxExclude)}

EqConfigs ==
    {MkConfig(sc[1], sc[2], e, sc[3], sc[4]) : sc \in EqScalars, e \in EqExcludes}

InitEq ==
    /\ pc = "compare"
    /\ lhs \in EqConfigs
    /\ rhs \in EqConfigs
    /\ eqResult = None
    /\ input = None
    /\ loaded = NoResult
    /\ output = None
    /\ reloaded = NoResult
    /\ shared = ConfigDefault
    /\ calls = <<>>

\* lhs == rhs is evaluated
Compare ==
    /\ pc = "compare"
    /\ eqResult' = Some(eq(lhs, rhs))
    /\ pc' = "compared"
    /\ UNCHANGED <<input, loaded, output, reloaded, shared, calls, lhs, rhs>>

NextEq == Compare

SpecEq == InitEq /\ [][NextEq]_vars

SameScalars(a, b) ==
    /\ a.follow_web_links = b.follow_web_links
    /\ a.traverse_parent_directories = b.traverse_parent_directories
    /\ a.user_agent = b.user_agent
    /\ a.cache_timeout = b.cache_timeout

Sources(c) == [i \in 1..Len(c.exclude) |-> as_str(c.exclude[i])]

IsStrictPrefix(s, t) == Len(s) < Len(t) /\ \A i \in 1..Len(s) : s[i] = t[i]

\* C6: eq returns true exactly when the four scalar fields are equal and the
\* exclude lists have the same length and the same source text at every
\* index; the same patterns in another order, or a strict prefix, give false.
Thm_C6_EqualityDefinition ==
    pc = "compared" =>
        /\ eqResult[1] <=>
               /\ SameScalars(lhs, rhs)
               /\ Len(lhs.exclude) = Len(rhs.exclude)
               /\ \A i \in 1..Len(lhs.exclude) :
                      as_str(lhs.exclude[i]) = as_str(rhs.exclude[i])
        /\ (/\ SameScalars(lhs, rhs)
            /\ Sources(rhs) \in Reorderings(Sources(lhs))
            /\ Sources(rhs) # Sources(lhs)) => eqResult[1] = FALSE
        /\ (SameScalars(lhs, rhs) /\ IsStrictPrefix(Sources(lhs), Sources(rhs)))
               => eqResult[1] = FALSE
        /\ (SameScalars(lhs, rhs) /\ IsStrictPrefix(Sources(rhs), Sources(lhs)))
               => eqResult[1] = FALSE

\* the same two patterns in the opposite order compared unequal
Wit_C6_EqualityDefinition ==
    /\ pc = "compared"
    /\ eqResult[1] = FALSE
    /\ SameScalars(lhs, rhs)
    /\ Len(lhs.exclude) = 2
    /\ Len(rhs.exclude) = 2
    /\ Sources(lhs)[1] = Sources(rhs)[2]
    /\ Sources(lhs)[2] = Sources(rhs)[1]
    /\ Sources(lhs)[1] # Sources(lhs)[2]

\* C10: two Configs that compare equal (their patterns compiled by
\* Regex::new) give the same should_skip result on every link, and eq is
\* reflexive, symmetric and transitive.
Thm_C10_EqualityIsCongruence ==
    pc = "compared" =>
        /\ eqResult[1] =>
               \A link \in Links : should_skip(lhs, link) = should_skip(rhs, link)
        /\ lhs = rhs => eqResult[1]
        /\ eqResult[1] = eq(rhs, lhs)
        /\ \A c \in EqConfigs : (eqResult[1] /\ eq(rhs, c)) => eq(lhs, c)
        /\ \A c \in EqConfigs : (eq(c, lhs) /\ eqResult[1]) => eq(c, rhs)

\* two equal Configs with a non-default scalar and two patterns, one of
\* which matches some link and not another
Wit_C10_EqualityIsCongruence ==
    /\ pc = "compared"
    /\ eqResult[1] = TRUE
    /\ lhs.user_agent # DEFAULT_USER_AGENT
    /\ Len(lhs.exclude) = 2
    /\ Len(rhs.exclude) = 2
    /\ \E l1, l2 \in Links : should_skip(rhs, l1) /\ ~should_skip(rhs, l2)

====
